---- MODULE Spec2Model ----
(***************************************************************************)
(* A model of tally_points_by_shape.py: main(), get_shapes(), get_points() *)
(* and tally_points(), with the containment predicate pt.within(poly) of   *)
(* shapely on integer coordinates.                                         *)
(*                                                                         *)
(* A dictionary is a sequence of <<key, value>> pairs with distinct keys,  *)
(* in insertion order (the order Python's dict iterates in).  A point is   *)
(* <<x, y>> = <<lon, lat>>; a ring is a sequence of such vertices.          *)
(***************************************************************************)
EXTENDS Integers, Sequences, FiniteSets, TLC

VARIABLES
    entry,          \* which function the run calls: "main" or "tally_points"
    pc,             \* position of the run
    shapeFile,      \* the shape file: [kind, features]
    stdin,          \* standard input: [kind, rows], rows of <<lat, lon>>
    comp,           \* get_shapes: the dictionary comprehension being built
    gi,             \* get_shapes: index of the next feature
    polys,          \* main: polys
    polys_flag,     \* main: polys_flag (0: not yet assigned)
    points,         \* main: points
    points_flag,    \* main: points_flag (0: not yet assigned)
    polygons,       \* tally_points: argument polygons
    pts,            \* tally_points: argument points
    d,              \* tally_points: d
    count,          \* tally_points: count
    i,              \* tally_points: index of the polygon of the outer loop
    j,              \* tally_points: index of the point of the inner loop
    tally,          \* main: tally
    w,              \* main: index of the next key to write
    stdout          \* what print and csv.writer wrote to sys.stdout

vars == <<entry, pc, shapeFile, stdin, comp, gi, polys, polys_flag, points,
          points_flag, polygons, pts, d, count, i, j, tally, w, stdout>>

----------------------------------------------------------------------------
(* Bounds of the model *)

MaxShapes == 2
MaxPoints == 2
MaxFeatures == 2

----------------------------------------------------------------------------
(* Sequences and dictionaries *)

SeqsUpTo(S, n) == UNION {[1..k -> S] : k \in 0..n}

Range(s) == {s[n] : n \in 1..Len(s)}

Keys(dict) == [n \in 1..Len(dict) |-> dict[n][1]]

HasKey(dict, k) == \E n \in 1..Len(dict) : dict[n][1] = k

Get(dict, k) == dict[CHOOSE n \in 1..Len(dict) : dict[n][1] = k][2]

DistinctKeys(dict) ==
    \A m, n \in 1..Len(dict) : dict[m][1] = dict[n][1] => m = n

\* dict[k] = v: an existing key keeps its place, a new key goes last
DictSet(dict, k, v) ==
    IF HasKey(dict, k)
    THEN [n \in 1..Len(dict) |-> IF dict[n][1] = k THEN <<k, v>> ELSE dict[n]]
    ELSE Append(dict, <<k, v>>)

----------------------------------------------------------------------------
(* Geometry: pt.within(poly) *)

\* Point(x, y)
Point(x, y) == <<x, y>>

\* Polygon(coords) raises for fewer than three coordinates
PolygonRaises(coords) == Len(coords) < 3

\* Polygon(coords): the exterior ring, closed when the coordinates leave it open
Polygon(coords) ==
    IF coords[1] = coords[Len(coords)] THEN coords ELSE Append(coords, coords[1])

\* the ring's edge that starts at vertex n, for n < Len(ring)
EdgeFrom(ring, n) == <<ring[n], ring[n + 1]>>

Cross(a, b, p) == (b[1] - a[1]) * (p[2] - a[2]) - (b[2] - a[2]) * (p[1] - a[1])

Min(a, b) == IF a < b THEN a ELSE b
Max(a, b) == IF a < b THEN b ELSE a

OnSegment(p, a, b) ==
    /\ Cross(a, b, p) = 0
    /\ Min(a[1], b[1]) <= p[1] /\ p[1] <= Max(a[1], b[1])
    /\ Min(a[2], b[2]) <= p[2] /\ p[2] <= Max(a[2], b[2])

OnBoundary(p, ring) ==
    \E n \in 1..(Len(ring) - 1) : OnSegment(p, EdgeFrom(ring, n)[1], EdgeFrom(ring, n)[2])

\* the ray from p towards +x crosses the edge a-b
RayCrosses(p, a, b) ==
    /\ (a[2] > p[2]) # (b[2] > p[2])
    /\ IF b[2] > a[2]
       THEN (p[1] - a[1]) * (b[2] - a[2]) < (p[2] - a[2]) * (b[1] - a[1])
       ELSE (p[1] - a[1]) * (b[2] - a[2]) > (p[2] - a[2]) * (b[1] - a[1])

Crossings(p, ring) ==
    Cardinality({n \in 1..(Len(ring) - 1) :
                    RayCrosses(p, EdgeFrom(ring, n)[1], EdgeFrom(ring, n)[2])})

InInterior(p, ring) == ~OnBoundary(p, ring) /\ Crossings(p, ring) % 2 = 1

\* pt.within(poly): the point lies in the polygon's interior; a point of the
\* boundary is not within the polygon
Within(pt, poly) == InInterior(pt, poly)

----------------------------------------------------------------------------
(* The inputs the model draws from *)

Square1  == <<<<0, 0>>, <<0, 2>>, <<2, 2>>, <<2, 0>>>>
Square2  == <<<<2, 0>>, <<2, 2>>, <<4, 2>>, <<4, 0>>, <<2, 0>>>>
Triangle == <<<<0, 0>>, <<4, 0>>, <<0, 4>>>>
ShortRing == <<<<0, 0>>, <<2, 2>>>>

Names == {"A", "B", "C"}
Rings == {Square1, Square2, Triangle}

\* inside Square1, on its vertex, on the edge it shares with Square2, and
\* inside Square2 (outside Square1, on the Triangle's slanted edge)
PointUniverse == {<<1, 1>>, <<0, 0>>, <<2, 1>>, <<3, 1>>}

\* the Shape Sets: dictionaries name -> Polygon
ShapeSets ==
    {s \in SeqsUpTo(Names \X {Polygon(r) : r \in Rings}, MaxShapes) : DistinctKeys(s)}

PointSets == SeqsUpTo(PointUniverse, MaxPoints)

\* a feature of the shape file; has_id and has_coords say whether
\* properties.id and geometry.coordinates[0] are there
Feature(has_id, id, has_coords, coords) ==
    [has_id |-> has_id, id |-> id, has_coords |-> has_coords, coords |-> coords]

FeatureUniverse ==
    { Feature(TRUE, "A", TRUE, Square1),
      Feature(TRUE, "B", TRUE, Square2),
      Feature(TRUE, "A", TRUE, Triangle),
      Feature(FALSE, "", TRUE, Square1),
      Feature(TRUE, "B", FALSE, <<>>),
      Feature(TRUE, "C", TRUE, ShortRing) }

ShapeFiles ==
    {[kind |-> "missing", features |-> <<>>], [kind |-> "badjson", features |-> <<>>]}
    \cup {[kind |-> "ok", features |-> f] : f \in SeqsUpTo(FeatureUniverse, MaxFeatures)}

\* rows of the input stream, <<lat, lon>>
RowUniverse == {<<1, 1>>, <<1, 2>>, <<3, 5>>}

Stdins ==
    {[kind |-> "tty", rows |-> <<>>], [kind |-> "bad", rows |-> <<>>]}
    \cup {[kind |-> "tsv", rows |-> r] : r \in SeqsUpTo(RowUniverse, MaxPoints)}

----------------------------------------------------------------------------
(* tally_points *)

\* count = 0 left out of the outer loop's body
KeepCount(c) == c

\* count = 0
ResetCount(c) == 0

\* count = 0 where the point is not within: the order of the points matters
IncOrRestart(c, pt, poly) == IF Within(pt, poly) THEN c + 1 ELSE 0

\* count = 1 in place of count += 1
IncSet(c, pt, poly) == IF Within(pt, poly) THEN 1 ELSE c

\* if pt.within(poly): count += 1
IncIfWithin(c, pt, poly) == IF Within(pt, poly) THEN c + 1 ELSE c

\* d = {name:count} in place of d.update({name:count})
RecordRebind(dict, name, c) == <<<<name, c>>>>

\* a polygon without points left out of d
RecordNonZero(dict, name, c) == IF c > 0 THEN DictSet(dict, name, c) ELSE dict

\* d.update({name:count})
Record(dict, name, c) == DictSet(dict, name, c)

RECURSIVE CountLoop(_, _, _, _)
CountLoop(c, poly, qs, n) ==
    IF n > Len(qs) THEN c
    ELSE CountLoop(IncIfWithin(c, qs[n], poly), poly, qs, n + 1)

RECURSIVE PolyLoop(_, _, _, _, _)
PolyLoop(dict, c, ps, qs, n) ==
    IF n > Len(ps) THEN dict
    ELSE LET c1 == CountLoop(ResetCount(c), ps[n][2], qs, 1)
         IN  PolyLoop(Record(dict, ps[n][1], c1), c1, ps, qs, n + 1)

\* tally_points(polygons, points) as a function of its arguments
tally_points(ps, qs) == PolyLoop(<<>>, 0, ps, qs, 1)

TallyEnter ==
    /\ pc = "tp_enter"
    /\ d' = <<>>
    /\ i' = 1
    /\ pc' = "tp_outer"
    /\ UNCHANGED <<entry, shapeFile, stdin, comp, gi, polys, polys_flag, points,
                   points_flag, polygons, pts, count, j, tally, w, stdout>>

TallyOuterNext ==
    /\ pc = "tp_outer"
    /\ i <= Len(polygons)
    /\ count' = ResetCount(count)
    /\ j' = 1
    /\ pc' = "tp_inner"
    /\ UNCHANGED <<entry, shapeFile, stdin, comp, gi, polys, polys_flag, points,
                   points_flag, polygons, pts, d, i, tally, w, stdout>>

TallyInner ==
    /\ pc = "tp_inner"
    /\ j <= Len(pts)
    /\ count' = IncIfWithin(count, pts[j], polygons[i][2])
    /\ j' = j + 1
    /\ UNCHANGED <<entry, pc, shapeFile, stdin, comp, gi, polys, polys_flag, points,
                   points_flag, polygons, pts, d, i, tally, w, stdout>>

TallyRecord ==
    /\ pc = "tp_inner"
    /\ j > Len(pts)
    /\ d' = Record(d, polygons[i][1], count)
    /\ i' = i + 1
    /\ pc' = "tp_outer"
    /\ UNCHANGED <<entry, shapeFile, stdin, comp, gi, polys, polys_flag, points,
                   points_flag, polygons, pts, count, j, tally, w, stdout>>

\* return(d), to main
TallyReturnToMain ==
    /\ pc = "tp_outer"
    /\ i > Len(polygons)
    /\ entry = "main"
    /\ tally' = d
    /\ w' = 1
    /\ pc' = "write"
    /\ UNCHANGED <<entry, shapeFile, stdin, comp, gi, polys, polys_flag, points,
                   points_flag, polygons, pts, d, count, i, j, stdout>>

\* return(d), to a caller of tally_points itself
TallyReturnToCaller ==
    /\ pc = "tp_outer"
    /\ i > Len(polygons)
    /\ entry = "tally_points"
    /\ pc' = "done"
    /\ UNCHANGED <<entry, shapeFile, stdin, comp, gi, polys, polys_flag, points,
                   points_flag, polygons, pts, d, count, i, j, tally, w, stdout>>

----------------------------------------------------------------------------
(* get_shapes *)

\* print(text)
Console(text) == [kind |-> "print", text |-> text]

\* tsv_writer.writerow((key, value))
Row(key, value) == [kind |-> "row", name |-> key, count |-> value]

\* i['properties']['id'] or i['geometry']['coordinates'][0] raises, or Polygon does
FeatureRaises(f) == ~f.has_id \/ ~f.has_coords \/ PolygonRaises(f.coords)

\* the except branch returning what was built before the exception
KeepPartial(partial) == partial

\* polygons = {} of the except branch
ExceptPolygons(partial) == <<>>

\* the except branch of get_shapes, and its return to main
GetShapesExcept ==
    /\ polys' = ExceptPolygons(comp)
    /\ polys_flag' = -1
    /\ stdout' = Append(stdout, Console("I/O error: no shape data acquired."))
    /\ pc' = "get_points"

\* open and json.load succeed
GetShapesLoad ==
    /\ pc = "main"
    /\ shapeFile.kind = "ok"
    /\ comp' = <<>>
    /\ gi' = 1
    /\ pc' = "gs_comp"
    /\ UNCHANGED <<entry, shapeFile, stdin, polys, polys_flag, points, points_flag,
                   polygons, pts, d, count, i, j, tally, w, stdout>>

\* open or json.load raises
GetShapesLoadRaise ==
    /\ pc = "main"
    /\ shapeFile.kind \in {"missing", "badjson"}
    /\ GetShapesExcept
    /\ UNCHANGED <<entry, shapeFile, stdin, comp, gi, points, points_flag,
                   polygons, pts, d, count, i, j, tally, w>>

\* one feature of the dictionary comprehension
GetShapesFeature ==
    /\ pc = "gs_comp"
    /\ gi <= Len(shapeFile.features)
    /\ ~FeatureRaises(shapeFile.features[gi])
    /\ comp' = DictSet(comp, shapeFile.features[gi].id,
                       Polygon(shapeFile.features[gi].coords))
    /\ gi' = gi + 1
    /\ UNCHANGED <<entry, pc, shapeFile, stdin, polys, polys_flag, points, points_flag,
                   polygons, pts, d, count, i, j, tally, w, stdout>>

GetShapesFeatureRaise ==
    /\ pc = "gs_comp"
    /\ gi <= Len(shapeFile.features)
    /\ FeatureRaises(shapeFile.features[gi])
    /\ GetShapesExcept
    /\ UNCHANGED <<entry, shapeFile, stdin, comp, gi, points, points_flag,
                   polygons, pts, d, count, i, j, tally, w>>

\* polygons = {...}; flag = 1; return(polygons, flag)
GetShapesReturn ==
    /\ pc = "gs_comp"
    /\ gi > Len(shapeFile.features)
    /\ polys' = comp
    /\ polys_flag' = 1
    /\ pc' = "get_points"
    /\ UNCHANGED <<entry, shapeFile, stdin, comp, gi, points, points_flag,
                   polygons, pts, d, count, i, j, tally, w, stdout>>

----------------------------------------------------------------------------
(* get_points *)

\* pd.read_csv raises on an unparseable or empty stream, df.columns = [...] on
\* rows that do not have two columns
ReadRaises(stream) == stream.kind = "bad" \/ stream.rows = <<>>

\* [Point(i,j) for (i, j) in zip(df['lon'], df['lat'])]
PointsOf(rows) == [n \in 1..Len(rows) |-> Point(rows[n][2], rows[n][1])]

GetPointsTty ==
    /\ pc = "get_points"
    /\ stdin.kind = "tty"
    /\ stdout' = Append(stdout, Console("I/O error: no input file name provided."))
    /\ points' = -1
    /\ points_flag' = -1
    /\ pc' = "main_if"
    /\ UNCHANGED <<entry, shapeFile, stdin, comp, gi, polys, polys_flag,
                   polygons, pts, d, count, i, j, tally, w>>

GetPointsRaise ==
    /\ pc = "get_points"
    /\ stdin.kind # "tty"
    /\ ReadRaises(stdin)
    /\ stdout' = Append(stdout, Console("I/O error: no point data acquired."))
    /\ points' = -1
    /\ points_flag' = -1
    /\ pc' = "main_if"
    /\ UNCHANGED <<entry, shapeFile, stdin, comp, gi, polys, polys_flag,
                   polygons, pts, d, count, i, j, tally, w>>

GetPointsOk ==
    /\ pc = "get_points"
    /\ stdin.kind # "tty"
    /\ ~ReadRaises(stdin)
    /\ points' = PointsOf(stdin.rows)
    /\ points_flag' = 1
    /\ pc' = "main_if"
    /\ UNCHANGED <<entry, shapeFile, stdin, comp, gi, polys, polys_flag,
                   polygons, pts, d, count, i, j, tally, w, stdout>>

----------------------------------------------------------------------------
(* main *)

\* if points_flag == 1, polys_flag not looked at
PointsClear(pf, sf) == pf = 1

\* if points_flag == 1 and polys_flag == 1
AllClear(pf, sf) == pf = 1 /\ sf = 1

\* tally = tally_points(polys, points)
MainCallTally ==
    /\ pc = "main_if"
    /\ AllClear(points_flag, polys_flag)
    /\ polygons' = polys
    /\ pts' = points
    /\ pc' = "tp_enter"
    /\ UNCHANGED <<entry, shapeFile, stdin, comp, gi, polys, polys_flag, points,
                   points_flag, d, count, i, j, tally, w, stdout>>

\* the else branch printing nothing
NoAbortLines == <<>>

\* print('Aborting.') of the else branch
AbortLines == <<Console("Aborting.")>>

MainAbort ==
    /\ pc = "main_if"
    /\ ~AllClear(points_flag, polys_flag)
    /\ stdout' = stdout \o AbortLines
    /\ pc' = "done"
    /\ UNCHANGED <<entry, shapeFile, stdin, comp, gi, polys, polys_flag, points,
                   points_flag, polygons, pts, d, count, i, j, tally, w>>

\* for key in tally.keys(): tsv_writer.writerow((key, tally[key]))
WriteRow ==
    /\ pc = "write"
    /\ w <= Len(tally)
    /\ stdout' = Append(stdout, Row(Keys(tally)[w], Get(tally, Keys(tally)[w])))
    /\ w' = w + 1
    /\ UNCHANGED <<entry, pc, shapeFile, stdin, comp, gi, polys, polys_flag, points,
                   points_flag, polygons, pts, d, count, i, j, tally>>

WriteDone ==
    /\ pc = "write"
    /\ w > Len(tally)
    /\ pc' = "done"
    /\ UNCHANGED <<entry, shapeFile, stdin, comp, gi, polys, polys_flag, points,
                   points_flag, polygons, pts, d, count, i, j, tally, w, stdout>>

----------------------------------------------------------------------------
(* The runs *)

NoFile == [kind |-> "missing", features |-> <<>>]
NoStream == [kind |-> "tty", rows |-> <<>>]

\* a run of the script
InitMain ==
    /\ entry = "main"
    /\ pc = "main"
    /\ shapeFile \in ShapeFiles
    /\ stdin \in Stdins
    /\ polygons = <<>>
    /\ pts = <<>>

\* a call of tally_points on a Shape Set and a Point Set
InitTally ==
    /\ entry = "tally_points"
    /\ pc = "tp_enter"
    /\ shapeFile = NoFile
    /\ stdin = NoStream
    /\ polygons \in ShapeSets
    /\ pts \in PointSets

Init ==
    /\ InitMain \/ InitTally
    /\ comp = <<>>
    /\ gi = 0
    /\ polys = <<>>
    /\ polys_flag = 0
    /\ points = <<>>
    /\ points_flag = 0
    /\ d = <<>>
    /\ count = 0
    /\ i = 0
    /\ j = 0
    /\ tally = <<>>
    /\ w = 0
    /\ stdout = <<>>

Next ==
    \/ GetShapesLoad
    \/ GetShapesLoadRaise
    \/ GetShapesFeature
    \/ GetShapesFeatureRaise
    \/ GetShapesReturn
    \/ GetPointsTty
    \/ GetPointsRaise
    \/ GetPointsOk
    \/ MainCallTally
    \/ MainAbort
    \/ TallyEnter
    \/ TallyOuterNext
    \/ TallyInner
    \/ TallyRecord
    \/ TallyReturnToMain
    \/ TallyReturnToCaller
    \/ WriteRow
    \/ WriteDone

Spec == Init /\ [][Next]_vars

----------------------------------------------------------------------------
(* What the properties speak of *)

TallyPcs == {"tp_enter", "tp_outer", "tp_inner"}

\* tally_points was entered (i is 0 before, at least 1 after)
TallyEntered == i >= 1

\* tally_points has returned d
TallyReturned == pc \in {"write", "done"} /\ TallyEntered

\* the boundary-inclusive containment: interior or boundary
Covers(p, ring) == InInterior(p, ring) \/ OnBoundary(p, ring)

Positions == 1..Len(pts)

SameEdge(e, f) == e = f \/ e = <<f[2], f[1]>>

\* the lattice the rings' vertices lie in
Lattice == (0..4) \X (0..4)

\* the polygons are adjacent: different, with no lattice point in the interior
\* of both
Adjacent(ring, other) ==
    /\ ring # other
    /\ \A q \in Lattice : ~(InInterior(q, ring) /\ InInterior(q, other))

\* ring and other are adjacent and p lies on an edge they have in common
OnSharedEdge(p, ring, other) ==
    /\ Adjacent(ring, other)
    /\ \E m \in 1..(Len(ring) - 1), n \in 1..(Len(other) - 1) :
          /\ SameEdge(EdgeFrom(ring, m), EdgeFrom(other, n))
          /\ OnSegment(p, EdgeFrom(ring, m)[1], EdgeFrom(ring, m)[2])

Perms(n) == {f \in [1..n -> 1..n] : \A a, b \in 1..n : f[a] = f[b] => a = b}

Permute(s, f) == [n \in 1..Len(s) |-> s[f[n]]]

Diagnostics(out) == SelectSeq(out, LAMBDA e : e.kind = "print")
Rows(out) == SelectSeq(out, LAMBDA e : e.kind = "row")

MainFailed == polys_flag = -1 \/ points_flag = -1
MainDone == entry = "main" /\ pc = "done"

\* the shape file cannot be read, or one of its features cannot be turned
\* into a name and a Polygon
ShapeFileBad ==
    \/ shapeFile.kind # "ok"
    \/ \E n \in 1..Len(shapeFile.features) : FeatureRaises(shapeFile.features[n])

\* the last feature with the id k
LastWithId(k) ==
    shapeFile.features[CHOOSE n \in 1..Len(shapeFile.features) :
        /\ shapeFile.features[n].id = k
        /\ \A m \in (n + 1)..Len(shapeFile.features) : shapeFile.features[m].id # k]

\* a step of tally_points leaves its arguments as they are
ArgumentsKept == pc \in TallyPcs => (polygons' = polygons /\ pts' = pts)

----------------------------------------------------------------------------
(* The properties *)

\* C1: when tally_points has returned, each polygon's count is the number of
\* points of the Point Set that lie in its interior or on its boundary (on an
\* edge or on a vertex): boundary points count as interior points do.
C1_BoundaryInclusive ==
    TallyReturned =>
        \A k \in 1..Len(d) :
            d[k][2] = Cardinality({n \in Positions :
                                      Covers(pts[n], Get(polygons, d[k][1]))})

\* C2: when tally_points has returned, a point on an edge that two adjacent
\* polygons share has been counted for both of them: each polygon's count is
\* at least the number of points lying on an edge it shares with an adjacent
\* polygon.
C2_SharedEdgeCountedInBoth ==
    TallyReturned =>
        \A a, b \in 1..Len(polygons) :
            a # b =>
                Get(d, polygons[a][1]) >=
                    Cardinality({n \in Positions :
                        OnSharedEdge(pts[n], polygons[a][2], polygons[b][2])})

\* C3: in a run of main, tally_points is entered and rows are written only
\* when both flags are 1; once a flag is -1, tally_points is never entered
\* and no row is ever written.
C3_TallyOnlyWhenBothSucceed ==
    entry = "main" =>
        /\ (pc \in TallyPcs \cup {"write"} \/ TallyEntered \/ Rows(stdout) # <<>>)
              => (polys_flag = 1 /\ points_flag = 1)
        /\ MainFailed => (~TallyEntered /\ Rows(stdout) = <<>> /\ tally = <<>>)

C3_Witness ==
    MainDone /\ polys_flag = -1 /\ points_flag = 1 /\ Rows(stdout) = <<>>

\* C4: the result of tally_points has one entry per key of the Shape Set and
\* no other key, polygons with count zero included; an empty Shape Set gives
\* an empty result.
C4_ResultHasExactlyShapeKeys ==
    TallyReturned =>
        /\ Range(Keys(d)) = Range(Keys(polygons))
        /\ Len(d) = Len(polygons)
        /\ DistinctKeys(d)
        /\ polygons = <<>> => d = <<>>

C4_Witness ==
    /\ TallyReturned
    /\ Len(polygons) = 2
    /\ Len(d) = 2
    /\ d[1][2] = 0
    /\ d[2][2] > 0

\* C5: the running count and every recorded count lie between 0 and the
\* number of elements of the Point Set.
C5_CountsWithinBounds ==
    /\ count \in 0..Len(pts)
    /\ \A k \in 1..Len(d) : d[k][2] \in 0..Len(pts)

C5_Witness ==
    /\ pc = "tp_inner"
    /\ i = 2
    /\ Len(pts) = 2
    /\ count = 2
    /\ d[1][2] = 2

\* C6: the result of tally_points is the same for every permutation of the
\* Point Set; for every permutation of the Shape Set it has the same
\* (name, count) pairs, in the permuted Shape Set's key order; the rows main
\* has written are those of the Shape Set's keys, in their order.
C6_OrderIndependence ==
    TallyReturned =>
        /\ \A f \in Perms(Len(pts)) : tally_points(polygons, Permute(pts, f)) = d
        /\ \A g \in Perms(Len(polygons)) :
              LET r == tally_points(Permute(polygons, g), pts)
              IN  Range(r) = Range(d) /\ Keys(r) = Keys(Permute(polygons, g))
        /\ entry = "main" =>
              Rows(stdout) = [n \in 1..(w - 1) |->
                                 Row(polys[n][1], Get(d, polys[n][1]))]

C6_Witness ==
    /\ MainDone
    /\ TallyReturned
    /\ Len(polys) = 2
    /\ Len(pts) = 2
    /\ Within(pts[1], polys[1][2])
    /\ ~Within(pts[2], polys[1][2])
    /\ Len(Rows(stdout)) = 2
    /\ Rows(stdout)[1].count = 1

\* C7, as claimed: a run of main in which an acquisition step failed ends
\* with exactly one line printed; a successful one with rows only.
C7_SingleDiagnostic ==
    MainDone =>
        IF MainFailed
        THEN Len(Diagnostics(stdout)) = 1
        ELSE Diagnostics(stdout) = <<>>

\* C7, amended: a run of main in which an acquisition step failed ends with
\* one line printed by each failed step followed by 'Aborting.', two or
\* three lines in all, and no row; a successful one with rows only.
C7_DiagnosticPerFailureThenAbort ==
    MainDone =>
        IF MainFailed
        THEN /\ Rows(stdout) = <<>>
             /\ Len(stdout) = (IF polys_flag = -1 THEN 1 ELSE 0)
                              + (IF points_flag = -1 THEN 1 ELSE 0) + 1
             /\ Len(stdout) \in {2, 3}
             /\ stdout[Len(stdout)] = Console("Aborting.")
             /\ polys_flag = -1 =>
                    stdout[1] = Console("I/O error: no shape data acquired.")
             /\ points_flag = -1 =>
                    stdout[Len(stdout) - 1] \in
                        {Console("I/O error: no input file name provided."),
                         Console("I/O error: no point data acquired.")}
        ELSE Diagnostics(stdout) = <<>> /\ Len(stdout) = Len(polys)

C7_Witness ==
    MainDone /\ polys_flag = -1 /\ points_flag = -1 /\ Len(Diagnostics(stdout)) = 3

\* C8: once get_shapes has returned, either the file or one of its features
\* could not be read and it returned the empty mapping with flag -1, or it
\* returned flag 1 with the mapping of all features (each id with the Polygon
\* of the last feature of that id); never a part of the mapping.
C8_GetShapesAllOrNothing ==
    (entry = "main" /\ polys_flag # 0) =>
        IF ShapeFileBad
        THEN polys_flag = -1 /\ polys = <<>>
        ELSE /\ polys_flag = 1
             /\ DistinctKeys(polys)
             /\ Range(Keys(polys)) =
                    {shapeFile.features[n].id : n \in 1..Len(shapeFile.features)}
             /\ \A k \in Range(Keys(polys)) :
                    Get(polys, k) = Polygon(LastWithId(k).coords)

C8_Witness ==
    /\ entry = "main"
    /\ polys_flag = -1
    /\ comp # <<>>
    /\ polys = <<>>

\* C9: for an empty Point Set, tally_points returns every polygon of the
\* Shape Set with count 0.
C9_EmptyPointSetAllZero ==
    (TallyReturned /\ pts = <<>>) =>
        d = [n \in 1..Len(polygons) |-> <<polygons[n][1], 0>>]

C9_Witness ==
    TallyReturned /\ pts = <<>> /\ Len(polygons) = 2 /\ Len(d) = 2

\* C10: the running count is the number of positions already visited whose
\* point is within the polygon, the count returned for a polygon is the
\* number of positions of the Point Set whose point is within it (a point
\* that occurs k times counts k times, other polygons do not matter), and
\* tally_points leaves the Shape Set and the Point Set as they are.
C10_CountIsNumberOfPositions ==
    /\ [](pc = "tp_inner" =>
            count = Cardinality({n \in 1..(j - 1) : Within(pts[n], polygons[i][2])}))
    /\ [](TallyReturned =>
            d = [k \in 1..Len(polygons) |->
                    <<polygons[k][1],
                      Cardinality({n \in Positions : Within(pts[n], polygons[k][2])})>>])
    /\ [][ArgumentsKept]_vars

C10_Witness ==
    /\ TallyReturned
    /\ Len(polygons) = 2
    /\ Len(pts) = 2
    /\ pts[1] = pts[2]
    /\ d[1][2] = 2
    /\ d[2][2] = 0

====
